---- MODULE Spec2Model ----
(***************************************************************************)
(* The request (write) side of an enproxy client connection:               *)
(* processRequests, submitRequest and cleanupAfterRequests of              *)
(* conn_impl_requests.go, together with the callers they synchronise with  *)
(* (the goroutines that call submitRequest and then wait on                *)
(* requestFinishedCh, and Close, which marks the connection closed and     *)
(* signals stopRequestCh).                                                 *)
(***************************************************************************)
EXTENDS Naturals, Sequences

\* Number of goroutines that call submitRequest (each submits one request).
NumSubmitters == 2
\* Buffer capacity of requestOutCh.
RequestOutCap == 1
\* Buffer capacity of requestFinishedCh.
RequestFinishedCap == 1

Submitters == 1..NumSubmitters
\* *request(nil): the worker holds no request.
NoRequest == 0

VARIABLES
    \* ---- submitRequest callers
    spc,               \* position of each submitter
    sres,              \* what submitRequest returned: "none", "true", "false"
    got,               \* the value each submitter read from requestFinishedCh
    \* ---- Conn fields
    doneRequesting,    \* c.doneRequesting
    chBuf,             \* requestOutCh: buffered requests
    chSendq,           \* requestOutCh: requests of senders blocked in the send
    chClosed,          \* requestOutCh has been closed
    requestFinishedCh, \* values buffered in requestFinishedCh
    stopRequestCh,     \* number of stop signals buffered in stopRequestCh
    initialResponseCh, \* values buffered in initialResponseCh
    closed,            \* c.isClosed()
    idle,              \* c.isIdle()
    closepc,           \* position of the goroutine calling Close
    \* ---- locals of processRequests / cleanupAfterRequests
    wpc,               \* position of the worker
    request,           \* the request received at line 48 / drained at line 113
    err,               \* err: "nil" or "err"
    resp,              \* resp: "nil", or the body of the response it refers to,
                       \* "open" or "closed"
    first,             \* first
    proxyHost,         \* proxyHost: "" or "pin"
    proxyConn,         \* proxyConn: "nil", "open", "closed"
    panicked,          \* recover() returned non-nil
    \* ---- observation of the run
    inflight,          \* doRequest calls that have started and not returned
    chanLog,           \* requests in the order requestOutCh took them
    consumed,          \* requests received by the main loop (line 48), in order
    issued,            \* requests handed to doRequest, in order
    hostLog,           \* the proxyHost argument of each doRequest call, in order
    ackCount,          \* per request: values sent on requestFinishedCh for it
    ackVal,            \* per request: the last such value
    posted,            \* values sent on initialResponseCh, in order
    exitCause,         \* why processRequests returned
    firstFailed,       \* the session's first attempt to reach the proxy failed
    firedBusyAt,       \* {Len(issued)} when the idle timer first fired on a busy session
    atFault            \* requests in flight or pending when doRequest failed or panicked

subVars == <<spc, sres, got>>
connVars == <<doneRequesting, chBuf, chSendq, chClosed, requestFinishedCh,
              stopRequestCh, initialResponseCh, closed, idle, closepc>>
workerVars == <<wpc, request, err, resp, first, proxyHost, proxyConn, panicked>>
obsVars == <<inflight, chanLog, consumed, issued, hostLog, ackCount, ackVal, posted,
             exitCause, firstFailed, firedBusyAt, atFault>>
vars == <<subVars, connVars, workerVars, obsVars>>

Range(q) == {q[i] : i \in 1..Len(q)}
Min(a, b) == IF a <= b THEN a ELSE b
Remove(q, x) == SelectSeq(q, LAMBDA y : y # x)

\* Everything a receive on requestOutCh can still deliver, oldest first.
ChanAll == chBuf \o chSendq

\* Submitters holding requestMutex.RLock (lines 98-99).
Readers == {s \in Submitters : spc[s] \in {"rlocked", "sending", "parked", "sent"}}
\* Submitters blocked in <-requestFinishedCh.
Waiting == {s \in Submitters : spc[s] = "waiting"}

Init ==
    /\ spc = [s \in Submitters |-> "idle"]
    /\ sres = [s \in Submitters |-> "none"]
    /\ got = [s \in Submitters |-> "none"]
    /\ doneRequesting = FALSE
    /\ chBuf = <<>>
    /\ chSendq = <<>>
    /\ chClosed = FALSE
    /\ requestFinishedCh = <<>>
    /\ stopRequestCh = 0
    /\ initialResponseCh = <<>>
    /\ closed = FALSE
    /\ idle \in BOOLEAN
    /\ closepc = "open"
    /\ wpc = "dial"
    /\ request = NoRequest
    /\ err = "nil"
    /\ resp = "nil"
    /\ first = TRUE
    /\ proxyHost = ""
    /\ proxyConn = "nil"
    /\ panicked = FALSE
    /\ inflight = 0
    /\ chanLog = <<>>
    /\ consumed = <<>>
    /\ issued = <<>>
    /\ hostLog = <<>>
    /\ ackCount = [s \in Submitters |-> 0]
    /\ ackVal = [s \in Submitters |-> "none"]
    /\ posted = <<>>
    /\ exitCause = "none"
    /\ firstFailed = FALSE
    /\ firedBusyAt = {}
    /\ atFault = {}

----------------------------------------------------------------------------
\* requestOutCh

\* Variant of NextItem that takes the newest request instead of the oldest.
NextItemNewest(q) == q[Len(q)]

\* The request the receive of line 48 (and of line 113) delivers: the oldest
\* one the channel holds.
NextItem(q) == Head(q)

\* The channel after `item` was received: blocked senders move up into the
\* buffer, and a sender whose request left the send queue is unblocked.
AfterReceive(item) ==
    LET rest == Remove(ChanAll, item)
        n == Min(RequestOutCap, Len(rest))
    IN /\ chBuf' = SubSeq(rest, 1, n)
       /\ chSendq' = SubSeq(rest, n + 1, Len(rest))
       /\ spc' = [s \in Submitters |->
                    IF spc[s] = "parked" /\ s \notin Range(SubSeq(rest, n + 1, Len(rest)))
                    THEN "sent" ELSE spc[s]]

\* c.requestFinishedCh <- v, sent for request `item`: the value goes into the
\* buffer when there is room; with no room it is handed to a caller blocked in
\* the receive when the buffer is empty, and otherwise the send blocks.
Acknowledge(item, v) ==
    /\ ackCount' = [ackCount EXCEPT ![item] = @ + 1]
    /\ ackVal' = [ackVal EXCEPT ![item] = v]
    /\ IF Len(requestFinishedCh) < RequestFinishedCap
       THEN /\ requestFinishedCh' = Append(requestFinishedCh, v)
            /\ UNCHANGED <<spc, got>>
       ELSE /\ requestFinishedCh = <<>>
            /\ \E s \in Waiting :
                 /\ spc' = [spc EXCEPT ![s] = "acked"]
                 /\ got' = [got EXCEPT ![s] = v]
            /\ UNCHANGED requestFinishedCh

----------------------------------------------------------------------------
\* submitRequest (lines 97-106)

\* c.requestMutex.RLock()
SubmitRLock(s) ==
    /\ spc[s] = "idle"
    /\ spc' = [spc EXCEPT ![s] = "rlocked"]
    /\ UNCHANGED <<sres, got, doneRequesting, chBuf, chSendq, chClosed,
                   requestFinishedCh, stopRequestCh, initialResponseCh, closed, idle,
                   closepc, wpc, request, err, resp, first, proxyHost, proxyConn,
                   panicked, inflight, chanLog, consumed, issued, hostLog, ackCount,
                   ackVal, posted, exitCause, firstFailed, firedBusyAt, atFault>>

\* Variant of Rejecting: the submitter does not look at doneRequesting.
RejectingNever(done) == FALSE

\* The test of line 100: the request is refused when c.doneRequesting is set.
Rejecting(done) == done

\* if c.doneRequesting { return false } (lines 100-101), read under the read
\* lock; the deferred RUnlock runs at the return.
SubmitCheck(s) ==
    /\ spc[s] = "rlocked"
    /\ IF Rejecting(doneRequesting)
       THEN /\ spc' = [spc EXCEPT ![s] = "rejected"]
            /\ sres' = [sres EXCEPT ![s] = "false"]
       ELSE /\ spc' = [spc EXCEPT ![s] = "sending"]
            /\ sres' = sres
    /\ UNCHANGED <<got, doneRequesting, chBuf, chSendq, chClosed, requestFinishedCh,
                   stopRequestCh, initialResponseCh, closed, idle, closepc, wpc,
                   request, err, resp, first, proxyHost, proxyConn, panicked, inflight,
                   chanLog, consumed, issued, hostLog, ackCount, ackVal, posted,
                   exitCause, firstFailed, firedBusyAt, atFault>>

\* else { c.requestOutCh <- request ... (line 103): the request goes into the
\* buffer, or the sender blocks in the send queue when the buffer is full; a
\* send on a closed channel panics.
SubmitSend(s) ==
    /\ spc[s] = "sending"
    /\ IF chClosed
       THEN /\ spc' = [spc EXCEPT ![s] = "sendPanic"]
            /\ UNCHANGED <<chBuf, chSendq, chanLog>>
       ELSE /\ chanLog' = Append(chanLog, s)
            /\ IF Len(chBuf) < RequestOutCap
               THEN /\ chBuf' = Append(chBuf, s)
                    /\ chSendq' = chSendq
                    /\ spc' = [spc EXCEPT ![s] = "sent"]
               ELSE /\ chSendq' = Append(chSendq, s)
                    /\ chBuf' = chBuf
                    /\ spc' = [spc EXCEPT ![s] = "parked"]
    /\ UNCHANGED <<sres, got, doneRequesting, chClosed, requestFinishedCh,
                   stopRequestCh, initialResponseCh, closed, idle, closepc, wpc,
                   request, err, resp, first, proxyHost, proxyConn, panicked, inflight,
                   consumed, issued, hostLog, ackCount, ackVal, posted, exitCause,
                   firstFailed, firedBusyAt, atFault>>

\* ... return true }, with the deferred RUnlock; the caller then waits for
\* the acknowledgment on requestFinishedCh.
SubmitReturn(s) ==
    /\ spc[s] = "sent"
    /\ spc' = [spc EXCEPT ![s] = "waiting"]
    /\ sres' = [sres EXCEPT ![s] = "true"]
    /\ UNCHANGED <<got, doneRequesting, chBuf, chSendq, chClosed, requestFinishedCh,
                   stopRequestCh, initialResponseCh, closed, idle, closepc, wpc,
                   request, err, resp, first, proxyHost, proxyConn, panicked, inflight,
                   chanLog, consumed, issued, hostLog, ackCount, ackVal, posted,
                   exitCause, firstFailed, firedBusyAt, atFault>>

\* The caller of submitRequest reads the acknowledgment: <-c.requestFinishedCh.
SubmitReceive(s) ==
    /\ spc[s] = "waiting"
    /\ requestFinishedCh # <<>>
    /\ got' = [got EXCEPT ![s] = Head(requestFinishedCh)]
    /\ requestFinishedCh' = Tail(requestFinishedCh)
    /\ spc' = [spc EXCEPT ![s] = "acked"]
    /\ UNCHANGED <<sres, doneRequesting, chBuf, chSendq, chClosed, stopRequestCh,
                   initialResponseCh, closed, idle, closepc, wpc, request, err, resp,
                   first, proxyHost, proxyConn, panicked, inflight, chanLog, consumed,
                   issued, hostLog, ackCount, ackVal, posted, exitCause, firstFailed,
                   firedBusyAt, atFault>>

----------------------------------------------------------------------------
\* Close and activity of the connection (callers of this file)

\* Close marks the connection closed ...
CloseMark ==
    /\ closepc = "open"
    /\ closepc' = "marked"
    /\ closed' = TRUE
    /\ UNCHANGED <<spc, sres, got, doneRequesting, chBuf, chSendq, chClosed,
                   requestFinishedCh, stopRequestCh, initialResponseCh, idle, wpc,
                   request, err, resp, first, proxyHost, proxyConn, panicked, inflight,
                   chanLog, consumed, issued, hostLog, ackCount, ackVal, posted,
                   exitCause, firstFailed, firedBusyAt, atFault>>

\* ... and signals the worker on stopRequestCh.
CloseSignal ==
    /\ closepc = "marked"
    /\ closepc' = "signalled"
    /\ stopRequestCh' = stopRequestCh + 1
    /\ UNCHANGED <<spc, sres, got, doneRequesting, chBuf, chSendq, chClosed,
                   requestFinishedCh, initialResponseCh, closed, idle, wpc, request,
                   err, resp, first, proxyHost, proxyConn, panicked, inflight, chanLog,
                   consumed, issued, hostLog, ackCount, ackVal, posted, exitCause,
                   firstFailed, firedBusyAt, atFault>>

\* Reads and writes of the application make the connection active or idle.
ToggleIdle ==
    /\ idle' = ~idle
    /\ UNCHANGED <<spc, sres, got, doneRequesting, chBuf, chSendq, chClosed,
                   requestFinishedCh, stopRequestCh, initialResponseCh, closed, closepc,
                   wpc, request, err, resp, first, proxyHost, proxyConn, panicked,
                   inflight, chanLog, consumed, issued, hostLog, ackCount, ackVal,
                   posted, exitCause, firstFailed, firedBusyAt, atFault>>

----------------------------------------------------------------------------
\* processRequests (lines 16-92)

\* return: the deferred close of proxyConn (lines 27-33) runs next.
Return(cause) ==
    /\ wpc' = "deferClose"
    /\ exitCause' = cause

\* initialResponseCh <- hostWithResponse{...}
PostInitial(v) ==
    /\ initialResponseCh' = Append(initialResponseCh, v)
    /\ posted' = Append(posted, v)

\* proxyConn, bufReader, err := c.dialProxy(); on failure log and return,
\* before the deferred close of proxyConn is registered (lines 22-26).
DialProxy ==
    /\ wpc = "dial"
    /\ \E ok \in BOOLEAN :
         IF ok
         THEN /\ proxyConn' = "open"
              /\ wpc' = "loop"
              /\ UNCHANGED <<err, exitCause, firstFailed>>
         ELSE /\ err' = "err"
              /\ wpc' = "cleanup"
              /\ exitCause' = "dialFail"
              /\ firstFailed' = TRUE
              /\ UNCHANGED proxyConn
    /\ UNCHANGED <<spc, sres, got, doneRequesting, chBuf, chSendq, chClosed,
                   requestFinishedCh, stopRequestCh, initialResponseCh, closed, idle,
                   closepc, request, resp, first, proxyHost, panicked, inflight,
                   chanLog, consumed, issued, hostLog, ackCount, ackVal, posted,
                   firedBusyAt, atFault>>

\* if c.isClosed() { return } (lines 43-45)
CheckClosed ==
    /\ wpc = "loop"
    /\ IF closed
       THEN Return("closed")
       ELSE wpc' = "select" /\ UNCHANGED exitCause
    /\ UNCHANGED <<spc, sres, got, doneRequesting, chBuf, chSendq, chClosed,
                   requestFinishedCh, stopRequestCh, initialResponseCh, closed, idle,
                   closepc, request, err, resp, first, proxyHost, proxyConn, panicked,
                   inflight, chanLog, consumed, issued, hostLog, ackCount, ackVal,
                   posted, firstFailed, firedBusyAt, atFault>>

\* case request := <-c.requestOutCh (line 48)
ReceiveRequest ==
    /\ wpc = "select"
    /\ ChanAll # <<>>
    /\ LET item == NextItem(ChanAll)
       IN /\ request' = item
          /\ consumed' = Append(consumed, item)
          /\ AfterReceive(item)
    /\ wpc' = "redial"
    /\ UNCHANGED <<sres, got, doneRequesting, chClosed, requestFinishedCh,
                   stopRequestCh, initialResponseCh, closed, idle, closepc, err, resp,
                   first, proxyHost, proxyConn, panicked, inflight, chanLog, issued,
                   hostLog, ackCount, ackVal, posted, exitCause, firstFailed,
                   firedBusyAt, atFault>>

\* case <-c.stopRequestCh: return (lines 84-85)
ReceiveStop ==
    /\ wpc = "select"
    /\ stopRequestCh > 0
    /\ stopRequestCh' = stopRequestCh - 1
    /\ Return("stop")
    /\ UNCHANGED <<spc, sres, got, doneRequesting, chBuf, chSendq, chClosed,
                   requestFinishedCh, initialResponseCh, closed, idle, closepc, request,
                   err, resp, first, proxyHost, proxyConn, panicked, inflight, chanLog,
                   consumed, issued, hostLog, ackCount, ackVal, posted, firstFailed,
                   firedBusyAt, atFault>>

\* Variants of IdleExit: the timer never ends the worker; the timer ends the
\* worker whether the session is idle or not.
IdleExitNever(isIdle) == FALSE
IdleExitAlways(isIdle) == TRUE

\* The test of line 87: the worker returns when c.isIdle().
IdleExit(isIdle) == isIdle

\* case <-time.After(c.Config.IdleTimeout): if c.isIdle() { return } (lines 86-90)
TimerFire ==
    /\ wpc = "select"
    /\ IF IdleExit(idle)
       THEN Return("idle") /\ UNCHANGED firedBusyAt
       ELSE /\ wpc' = "loop"
            /\ firedBusyAt' = IF firedBusyAt = {} THEN {Len(issued)} ELSE firedBusyAt
            /\ UNCHANGED exitCause
    /\ UNCHANGED <<spc, sres, got, doneRequesting, chBuf, chSendq, chClosed,
                   requestFinishedCh, stopRequestCh, initialResponseCh, closed, idle,
                   closepc, request, err, resp, first, proxyHost, proxyConn, panicked,
                   inflight, chanLog, consumed, issued, hostLog, ackCount, ackVal,
                   posted, firstFailed, atFault>>

\* Variant of AfterIssue: the worker goes on to its select without waiting for
\* doRequest to return (pipelined requests).
AfterIssuePipelined == "select"

\* Where the worker is once it has called doRequest: blocked in the call until
\* it returns (line 61 is a plain call, not a goroutine).
AfterIssue == "doRequest"

\* Variant of ExchangeHost: the exchange is sent without the pin.
ExchangeHostUnpinned(host) == ""

\* The proxyHost argument doRequest is called with (line 61).
ExchangeHost(host) == host

\* redialProxyIfNecessary (lines 50-58), then the call of doRequest (line 61).
\* The connection is still usable, or it is replaced by a fresh one, or the
\* dialer fails.
RedialAndIssue ==
    /\ wpc = "redial"
    /\ \E outcome \in {"usable", "redialed", "failed"} :
         IF outcome = "failed"
         THEN /\ err' = "err"
              /\ proxyConn' = "nil"
              /\ IF first
                 THEN PostInitial("err") /\ firstFailed' = TRUE
                 ELSE UNCHANGED <<initialResponseCh, posted, firstFailed>>
              /\ Return("redialFail")
              /\ UNCHANGED <<inflight, issued, hostLog>>
         ELSE /\ proxyConn' = "open"
              /\ inflight' = inflight + 1
              /\ issued' = Append(issued, request)
              /\ hostLog' = Append(hostLog, ExchangeHost(proxyHost))
              /\ wpc' = AfterIssue
              /\ UNCHANGED <<err, initialResponseCh, posted, firstFailed, exitCause>>
    /\ UNCHANGED <<spc, sres, got, doneRequesting, chBuf, chSendq, chClosed,
                   requestFinishedCh, stopRequestCh, closed, idle, closepc, request,
                   resp, first, proxyHost, panicked, chanLog, consumed, ackCount,
                   ackVal, firedBusyAt, atFault>>

\* resp, err = c.doRequest(...) returns (line 61): with a response, with an
\* error, or by panicking.
DoRequestReturn ==
    /\ wpc = "doRequest"
    /\ inflight' = inflight - 1
    /\ \E outcome \in {"ok", "err", "panic"} :
         CASE outcome = "ok" ->
                /\ err' = "nil"
                /\ resp' = "open"
                /\ wpc' = "ack"
                /\ UNCHANGED <<panicked, exitCause, atFault>>
           [] outcome = "err" ->
                /\ err' = "err"
                /\ resp' = "nil"
                /\ wpc' = "ack"
                /\ atFault' = {request} \cup Range(ChanAll)
                /\ UNCHANGED <<panicked, exitCause>>
           [] outcome = "panic" ->
                /\ panicked' = TRUE
                /\ atFault' = {request} \cup Range(ChanAll)
                /\ Return("panic")
                /\ UNCHANGED <<err, resp>>
    /\ UNCHANGED <<spc, sres, got, doneRequesting, chBuf, chSendq, chClosed,
                   requestFinishedCh, stopRequestCh, initialResponseCh, closed, idle,
                   closepc, request, first, proxyHost, proxyConn, chanLog, consumed,
                   issued, hostLog, ackCount, ackVal, posted, firstFailed, firedBusyAt>>

\* c.requestFinishedCh <- err (line 62)
SendFinished ==
    /\ wpc = "ack"
    /\ Acknowledge(request, err)
    /\ wpc' = "afterAck"
    /\ UNCHANGED <<sres, doneRequesting, chBuf, chSendq, chClosed, stopRequestCh,
                   initialResponseCh, closed, idle, closepc, request, err, resp, first,
                   proxyHost, proxyConn, panicked, inflight, chanLog, consumed, issued,
                   hostLog, posted, exitCause, firstFailed, firedBusyAt, atFault>>

\* Variant of AfterFailure: the worker tries the failed request again.
AfterFailureRetry == "redial"

\* Where the worker goes when doRequest returned an error: it returns
\* (line 69), it does not try the request again.
AfterFailure == "deferClose"

\* Variant of FirstAfterResponse: first is not cleared.
FirstAfterResponseKept == TRUE

\* first = false (line 80), after the first response was posted.
FirstAfterResponse == FALSE

\* Lines 63-83: on error post it to initialResponseCh if first, and return;
\* otherwise on the first request learn proxyHost and post the response, on
\* later ones close the response body.
AfterExchange ==
    /\ wpc = "afterAck"
    /\ IF err # "nil"
       THEN /\ IF first
               THEN PostInitial("err") /\ firstFailed' = TRUE
               ELSE UNCHANGED <<initialResponseCh, posted, firstFailed>>
            /\ wpc' = AfterFailure
            /\ exitCause' = "exchangeFail"
            /\ UNCHANGED <<first, proxyHost, resp>>
       ELSE /\ IF first
               THEN /\ proxyHost' = "pin"
                    /\ PostInitial("resp")
                    /\ first' = FirstAfterResponse
                    /\ resp' = resp
               ELSE /\ resp' = "closed"
                    /\ UNCHANGED <<proxyHost, initialResponseCh, posted, first>>
            /\ wpc' = "loop"
            /\ UNCHANGED <<exitCause, firstFailed>>
    /\ UNCHANGED <<spc, sres, got, doneRequesting, chBuf, chSendq, chClosed,
                   requestFinishedCh, stopRequestCh, closed, idle, closepc, request,
                   err, proxyConn, panicked, inflight, chanLog, consumed, issued,
                   hostLog, ackCount, ackVal, firedBusyAt, atFault>>

\* Variant of CloseHeld: the connection is left as it is.
CloseHeldNot(conn) == conn

\* if proxyConn != nil { proxyConn.Close() } (lines 28-31), on the value the
\* variable has when the deferred function runs.
CloseHeld(conn) == IF conn = "open" THEN "closed" ELSE conn

\* The deferred function of lines 27-33: close proxyConn if there is one.
DeferredClose ==
    /\ wpc = "deferClose"
    /\ proxyConn' = CloseHeld(proxyConn)
    /\ wpc' = "cleanup"
    /\ UNCHANGED <<spc, sres, got, doneRequesting, chBuf, chSendq, chClosed,
                   requestFinishedCh, stopRequestCh, initialResponseCh, closed, idle,
                   closepc, request, err, resp, first, proxyHost, panicked, inflight,
                   chanLog, consumed, issued, hostLog, ackCount, ackVal, posted,
                   exitCause, firstFailed, firedBusyAt, atFault>>

----------------------------------------------------------------------------
\* cleanupAfterRequests (lines 108-132)

\* case <-c.requestOutCh (line 113)
CleanupDrain ==
    /\ wpc = "cleanup"
    /\ ChanAll # <<>>
    /\ LET item == NextItem(ChanAll)
       IN /\ request' = item
          /\ AfterReceive(item)
    /\ wpc' = "cleanupAck"
    /\ UNCHANGED <<sres, got, doneRequesting, chClosed, requestFinishedCh,
                   stopRequestCh, initialResponseCh, closed, idle, closepc, err, resp,
                   first, proxyHost, proxyConn, panicked, inflight, chanLog, consumed,
                   issued, hostLog, ackCount, ackVal, posted, exitCause, firstFailed,
                   firedBusyAt, atFault>>

\* Variant of DrainAck: the two values are exchanged.
DrainAckSwapped == IF panicked THEN "EOF" ELSE "ErrUnexpectedEOF"

\* The value cleanup acknowledges a drained request with (lines 114-118).
DrainAck == IF panicked THEN "ErrUnexpectedEOF" ELSE "EOF"

\* c.requestFinishedCh <- io.ErrUnexpectedEOF / io.EOF (lines 114-118)
CleanupAck ==
    /\ wpc = "cleanupAck"
    /\ Acknowledge(request, DrainAck)
    /\ wpc' = "cleanup"
    /\ UNCHANGED <<sres, doneRequesting, chBuf, chSendq, chClosed, stopRequestCh,
                   initialResponseCh, closed, idle, closepc, request, err, resp, first,
                   proxyHost, proxyConn, panicked, inflight, chanLog, consumed, issued,
                   hostLog, posted, exitCause, firstFailed, firedBusyAt, atFault>>

\* case <-c.stopRequestCh: do nothing (lines 119-120)
CleanupStop ==
    /\ wpc = "cleanup"
    /\ stopRequestCh > 0
    /\ stopRequestCh' = stopRequestCh - 1
    /\ UNCHANGED <<spc, sres, got, doneRequesting, chBuf, chSendq, chClosed,
                   requestFinishedCh, initialResponseCh, closed, idle, closepc, wpc,
                   request, err, resp, first, proxyHost, proxyConn, panicked, inflight,
                   chanLog, consumed, issued, hostLog, ackCount, ackVal, posted,
                   exitCause, firstFailed, firedBusyAt, atFault>>

\* default: taken only when neither channel has anything to receive (line 121)
CleanupDefault ==
    /\ wpc = "cleanup"
    /\ ChanAll = <<>>
    /\ stopRequestCh = 0
    /\ wpc' = "lock"
    /\ UNCHANGED <<spc, sres, got, doneRequesting, chBuf, chSendq, chClosed,
                   requestFinishedCh, stopRequestCh, initialResponseCh, closed, idle,
                   closepc, request, err, resp, first, proxyHost, proxyConn, panicked,
                   inflight, chanLog, consumed, issued, hostLog, ackCount, ackVal,
                   posted, exitCause, firstFailed, firedBusyAt, atFault>>

\* Variant of CanLock: the flag is set without waiting for the readers.
CanLockDespiteReaders(readers) == TRUE

\* c.requestMutex.Lock() (line 122) returns when no submitter holds the read
\* lock.
CanLock(readers) == readers = {}

\* c.requestMutex.Lock(); c.doneRequesting = true; c.requestMutex.Unlock()
\* (lines 122-124)
CleanupLock ==
    /\ wpc = "lock"
    /\ CanLock(Readers)
    /\ doneRequesting' = TRUE
    /\ wpc' = "close"
    /\ UNCHANGED <<spc, sres, got, chBuf, chSendq, chClosed, requestFinishedCh,
                   stopRequestCh, initialResponseCh, closed, idle, closepc, request,
                   err, resp, first, proxyHost, proxyConn, panicked, inflight, chanLog,
                   consumed, issued, hostLog, ackCount, ackVal, posted, exitCause,
                   firstFailed, firedBusyAt, atFault>>

\* The resp parameter of cleanupAfterRequests: the argument of the defer
\* statement (line 19) is evaluated when the statement runs, two lines after
\* var resp (line 17), so it is nil whatever the variable holds at the exit.
CleanupResp(current) == "nil"

\* close(c.requestOutCh); if resp != nil { resp.Body.Close() }; return
\* (lines 125-129).
CleanupClose ==
    /\ wpc = "close"
    /\ chClosed' = TRUE
    /\ resp' = IF CleanupResp(resp) # "nil" THEN "closed" ELSE resp
    /\ wpc' = "done"
    /\ UNCHANGED <<spc, sres, got, doneRequesting, chBuf, chSendq, requestFinishedCh,
                   stopRequestCh, initialResponseCh, closed, idle, closepc, request,
                   err, first, proxyHost, proxyConn, panicked, inflight, chanLog,
                   consumed, issued, hostLog, ackCount, ackVal, posted, exitCause,
                   firstFailed, firedBusyAt, atFault>>

----------------------------------------------------------------------------

Worker ==
    \/ DialProxy
    \/ CheckClosed
    \/ ReceiveRequest
    \/ ReceiveStop
    \/ TimerFire
    \/ RedialAndIssue
    \/ DoRequestReturn
    \/ SendFinished
    \/ AfterExchange
    \/ DeferredClose
    \/ CleanupDrain
    \/ CleanupAck
    \/ CleanupStop
    \/ CleanupDefault
    \/ CleanupLock
    \/ CleanupClose

Submit ==
    \E s \in Submitters :
        \/ SubmitRLock(s)
        \/ SubmitCheck(s)
        \/ SubmitSend(s)
        \/ SubmitReturn(s)
        \/ SubmitReceive(s)

Environment ==
    \/ CloseMark
    \/ CloseSignal
    \/ ToggleIdle

Next == Worker \/ Submit \/ Environment

Spec == Init /\ [][Next]_vars

\* The Go scheduler runs every goroutine that can take a step: the worker and
\* the submitters.
FairSpec == Spec /\ WF_vars(Worker) /\ \A s \in Submitters : WF_vars(SubmitCheck(s) \/ SubmitSend(s) \/ SubmitReturn(s) \/ SubmitReceive(s))

TypeOK ==
    /\ spc \in [Submitters -> {"idle", "rlocked", "sending", "parked", "sent", "waiting", "acked",
                               "rejected", "sendPanic"}]
    /\ sres \in [Submitters -> {"none", "true", "false"}]
    /\ got \in [Submitters -> {"none", "nil", "err", "EOF", "ErrUnexpectedEOF"}]
    /\ doneRequesting \in BOOLEAN
    /\ Len(chBuf) <= RequestOutCap
    /\ chClosed \in BOOLEAN
    /\ Len(requestFinishedCh) <= RequestFinishedCap
    /\ stopRequestCh \in 0..1
    /\ closed \in BOOLEAN
    /\ idle \in BOOLEAN
    /\ closepc \in {"open", "marked", "signalled"}
    /\ wpc \in {"dial", "loop", "select", "redial", "doRequest", "ack", "afterAck",
                "deferClose", "cleanup", "cleanupAck", "lock", "close", "done"}
    /\ request \in Submitters \cup {NoRequest}
    /\ err \in {"nil", "err"}
    /\ resp \in {"nil", "open", "closed"}
    /\ first \in BOOLEAN
    /\ proxyHost \in {"", "pin"}
    /\ proxyConn \in {"nil", "open", "closed"}
    /\ panicked \in BOOLEAN
    /\ inflight \in 0..1

----------------------------------------------------------------------------
\* Properties

IsPrefix(p, q) == Len(p) <= Len(q) /\ p = SubSeq(q, 1, Len(p))
Accepted == Range(chanLog)
Abnormal == {"err", "ErrUnexpectedEOF"}

\* C1: in every reachable state at most one doRequest call of the session has
\* started and not returned, however many submitters run concurrently.
C1_AtMostOneExchangeInFlight == inflight <= 1

\* An exchange is in flight while another request is waiting in requestOutCh.
C1_Witness == inflight = 1 /\ wpc = "doRequest" /\ ChanAll # <<>>

\* C2: the requests the worker has handed to doRequest are, in order, a prefix
\* of the requests in the order requestOutCh took them: none is issued twice,
\* none is skipped before a later one is issued.
C2_IssuedInChannelOrder == IsPrefix(issued, chanLog)

\* Two requests were queued behind each other and both have been issued.
C2_Witness == Len(issued) = 2 /\ Len(chanLog) = 2

\* C3: when the worker has terminated (without a panic), every request its
\* main loop consumed has exactly one acknowledgment on requestFinishedCh, nil
\* or an error, also when the redial before the exchange failed.
C3_ConsumedRequestsAcknowledged ==
    (wpc = "done" /\ ~panicked) =>
        \A i \in Range(consumed) : ackCount[i] = 1 /\ ackVal[i] \in {"nil", "err"}

\* C4: no accepted request is left unacknowledged in requestOutCh after the
\* channel has been closed.
C4_NoRequestLeftInClosedChannel == chClosed => ChanAll = <<>>

\* C5: whenever the session's first attempt to reach the proxy failed (the
\* initial dial, the redial before the first exchange, or the first exchange),
\* the worker has posted an error on initialResponseCh before it terminates.
C5_FirstFailurePosted == (wpc = "done" /\ firstFailed) => "err" \in Range(posted)

\* C6: once the worker has received the stop signal and cleanup has returned,
\* doneRequesting is set, requestOutCh is closed and no accepted write, whether
\* in flight, pending or submitted concurrently, is left without an
\* acknowledgment.
C6_CloseUnblocksWrites ==
    (wpc = "done" /\ exitCause = "stop") =>
        /\ doneRequesting
        /\ chClosed
        /\ \A i \in Accepted : ackCount[i] >= 1

\* No request is submitted, the session stays idle and Close is not called.
QuietIdle == idle /\ closepc = "open" /\ \A s \in Submitters : spc[s] = "idle"

\* The worker has ended without holding an open proxy connection, and cleanup
\* has run.
SelfTerminated ==
    /\ wpc = "done"
    /\ exitCause \in {"idle", "dialFail"}
    /\ proxyConn # "open"
    /\ doneRequesting
    /\ chClosed

\* C7: a session on which nothing is submitted, which stays idle and is not
\* closed by the application eventually terminates by itself: the worker
\* leaves its loop, closes the proxy connection it holds and runs cleanup.
C7_IdleSessionSelfTerminates == []QuietIdle => <>SelfTerminated

\* The worker dialled, ended on the idle timer and closed its connection,
\* with no request submitted and no Close.
C7_Witness ==
    /\ SelfTerminated
    /\ exitCause = "idle"
    /\ proxyConn = "closed"
    /\ chanLog = <<>>
    /\ closepc = "open"

\* C8: the idle timer makes the worker return only in a step taken while the
\* session is idle and no exchange is in flight; a timer that fires while the
\* session is not idle sends the worker back to the top of its loop.
C8_IdleTimeoutIsSoft ==
    [][ /\ (exitCause' = "idle" /\ exitCause # "idle") => (idle /\ inflight = 0)
        /\ (firedBusyAt' # firedBusyAt) => (~idle /\ wpc' = "loop" /\ exitCause' = "none")
      ]_vars

\* The timer fired on a busy session and the worker issued a request later.
C8_Witness == \E n \in firedBusyAt : Len(issued) > n

\* C9: after an exchange returned an error and the worker has terminated,
\* every request that was in flight or pending at the failure has an
\* abnormal-termination acknowledgment (not the clean end-of-stream one).
C9_FailureUnblocksAbnormally ==
    (wpc = "done" /\ exitCause = "exchangeFail") =>
        \A i \in atFault : ackCount[i] >= 1 /\ ackVal[i] \in Abnormal

\* C10: after a panic in the worker, cleanup has acknowledged every request
\* that was in flight or pending at the fault with io.ErrUnexpectedEOF, and has
\* set doneRequesting and closed requestOutCh.
C10_PanicUnblocksEveryCaller ==
    (wpc = "done" /\ panicked) =>
        /\ doneRequesting
        /\ chClosed
        /\ \A i \in atFault : ackCount[i] >= 1 /\ ackVal[i] = "ErrUnexpectedEOF"

\* C11: once cleanup has set doneRequesting it stays set, nothing is enqueued
\* on requestOutCh any more, and a submitRequest call that tests the flag
\* afterwards returns false.
C11_RefusesAfterShutdown ==
    [][ doneRequesting =>
          /\ doneRequesting'
          /\ chanLog' = chanLog
          /\ \A s \in Submitters :
                (spc[s] = "rlocked" /\ spc'[s] # "rlocked") =>
                    (spc'[s] = "rejected" /\ sres'[s] = "false")
      ]_vars

\* A submitter called submitRequest after the worker was done and got false.
C11_Witness ==
    /\ wpc = "done"
    /\ \E s \in Submitters : spc[s] = "rejected" /\ sres[s] = "false" /\ s \notin Accepted
    /\ \E s \in Submitters : spc[s] = "acked"

\* C12: the first exchange of a session is issued with the empty proxyHost,
\* proxyHost is assigned only once, from the first successful response, and
\* every later exchange is issued with the value assigned then.
C12_PinImmutableAndAttached ==
    [][ /\ (proxyHost' # proxyHost) =>
              (proxyHost = "" /\ first /\ ~first' /\ err = "nil" /\ Len(issued) = 1)
        /\ Len(hostLog') >= 1 => hostLog'[1] = ""
        /\ \A k \in 2..Len(hostLog') : ~first' /\ hostLog'[k] = proxyHost'
      ]_vars

\* A second exchange has been issued, after the pin was learned.
C12_Witness ==
    /\ Len(hostLog) = 2
    /\ hostLog[2] = "pin"
    /\ wpc = "doRequest"

\* C14: no request is handed to doRequest twice, and once redialProxyIfNecessary
\* or doRequest has returned an error the worker issues no further exchange,
\* whether the failure hit the first request or a later one.
C14_FailedExchangeIsTerminal ==
    [][ /\ \A j, k \in 1..Len(issued') : issued'[j] = issued'[k] => j = k
        /\ err = "err" => issued' = issued
      ]_vars

\* The exchange of the second request failed after the first had succeeded,
\* and the worker has terminated.
C14_Witness ==
    /\ wpc = "done"
    /\ exitCause = "exchangeFail"
    /\ ~first
    /\ Len(issued) = 2

\* The requests cleanupAfterRequests has taken out of requestOutCh and
\* acknowledged: accepted, not received by the main loop, no longer in the
\* channel and not the one cleanup is about to acknowledge.
Drained ==
    {i \in Accepted : /\ i \notin Range(consumed)
                      /\ i \notin Range(ChanAll)
                      /\ ~(wpc = "cleanupAck" /\ request = i)}

\* C15: every request cleanup drains gets one acknowledgment, and its value
\* depends only on whether the worker panicked: io.ErrUnexpectedEOF after a
\* recovered panic, io.EOF after a stop, a close, an idle exit or a returned
\* error.
C15_DrainAckDependsOnPanicOnly ==
    \A i \in Drained :
        /\ ackCount[i] = 1
        /\ ackVal[i] = IF exitCause = "panic" THEN "ErrUnexpectedEOF" ELSE "EOF"
        /\ exitCause \in {"stop", "closed", "idle", "dialFail", "redialFail",
                          "exchangeFail", "panic"}

\* The worker returned after a failed exchange and cleanup acknowledged a
\* request that was pending with io.EOF.
C15_Witness ==
    /\ wpc = "done"
    /\ exitCause = "exchangeFail"
    /\ \E i \in Drained : ackVal[i] = "EOF" /\ got[i] = "EOF"

\* C16: when the worker has terminated, resp does not refer to a response
\* whose body is still open: cleanupAfterRequests has closed what the worker
\* itself had not closed.
C16_CleanupReleasesLastResponse == wpc = "done" => resp # "open"

\* C17: no submitter sends on the closed requestOutCh: the channel is closed
\* only after doneRequesting was set, and when it is closed no submitter that
\* read doneRequesting as false is about to send or blocked in its send.
C17_NoSendOnClosedChannel ==
    /\ \A s \in Submitters : spc[s] # "sendPanic"
    /\ chClosed => doneRequesting
    /\ chClosed => \A s \in Submitters : spc[s] \notin {"sending", "parked"}

\* A submitter took the read lock while the worker was in cleanup, read
\* doneRequesting as false and completed its send before the channel was
\* closed.
C17_Witness ==
    /\ chClosed
    /\ \E s \in Submitters : sres[s] = "true" /\ s \in Range(ChanAll)

\* C18: at most one value is ever sent on initialResponseCh, and only for the
\* first request the worker received: the response, with the pin, when its
\* exchange succeeded, the error when its redial or its exchange returned an
\* error; nothing is sent for a second or later request.
C18_InitialResponseOneShot ==
    /\ Len(posted) <= 1
    /\ posted # <<>> => consumed # <<>>
    /\ ~first <=> posted = <<"resp">>
    /\ ~first => proxyHost = "pin"
    /\ (first /\ exitCause \in {"redialFail", "exchangeFail"}) <=> posted = <<"err">>

\* The exchange of a second request failed after the first response had been
\* posted: nothing more was posted.
C18_Witness ==
    /\ wpc = "done"
    /\ Len(consumed) = 2
    /\ exitCause \in {"redialFail", "exchangeFail"}
    /\ posted = <<"resp">>

\* The worker has left its loop and the deferred close of the connection
\* has run: cleanupAfterRequests is running or has returned.
InCleanup == wpc \in {"cleanup", "cleanupAck", "lock", "close", "done"}

\* C19: on every exit of the worker the relay connection held in proxyConn is
\* closed before cleanupAfterRequests starts, hence before doneRequesting is
\* set: no open connection is left when the worker is gone.
C19_NoConnectionOutlivesWorker ==
    /\ InCleanup => proxyConn # "open"
    /\ doneRequesting => (InCleanup /\ proxyConn # "open")

\* The worker panicked in an exchange; its connection was closed and the
\* cleanup has completed.
C19_Witness ==
    /\ wpc = "done"
    /\ exitCause = "panic"
    /\ proxyConn = "closed"
    /\ doneRequesting

====
